---- MODULE Spec2Model ----
(***************************************************************************)
(* Model of sketchybar/.config/sketchybar/scripts/color_extractor.py:      *)
(* the command-line entry, extract_colors and the colour-math helpers.     *)
(*                                                                         *)
(* Colours are triples <<r, g, b>>.  A Python None is the empty tuple.     *)
(* The 80x80 resized image is kept run-length encoded: a sequence of runs  *)
(* <<pixel, count>> in order of first occurrence, whose counts sum to      *)
(* 6400.  Counter and most_common() read only the order of first           *)
(* occurrence and the totals, so nothing the program computes depends on   *)
(* how the pixels of two runs interleave.                                  *)
(*                                                                         *)
(* Floating point.  The helpers compute in IEEE doubles; the model uses    *)
(* scaled integers that stay below 2^31:                                   *)
(*   - linearize(c) is tabulated for c in 0..255, scaled by 10^8 and       *)
(*     rounded, from the expression at line 27;                            *)
(*   - brightness is scaled by 1000 (299 r + 587 g + 114 b), exact;        *)
(*   - color_distance is compared squared and scaled by 512, exact: the    *)
(*     radicand is a multiple of 1/512 that a double holds exactly.        *)
(* Every comparison the program makes on these values (contrast against    *)
(* 3.0 and 2.0, distance against 80 and 40, brightness against 127 and     *)
(* against another brightness) was evaluated in doubles for all 1331^2     *)
(* pairs of buckets and for every synthetic and darkened colour, and the   *)
(* integer comparison agrees with it in every case.                        *)
(***************************************************************************)
EXTENDS Integers, Sequences, FiniteSets, TLC

(* ------------------------------ constants ------------------------------ *)

\* img.resize((80, 80)): the side of the sampled grid.
Side == 80

\* quantize(rgb, step=24): the default bucket width.
Step == 24

\* convert("RGB"): 8-bit channels.
MaxChannel == 255

\* extract_colors(image_path, min_contrast=3.0, min_distance=80).
MinContrast == 3

MinDistance == 80

\* The literal 2.0 of the relaxed pass.
RelaxedContrast == 2

\* The brightness threshold of the synthetic companion.
BrightnessSplit == 127

(* ------------------------------- bounds -------------------------------- *)

\* An image is cut into Units equal shares of its 6400 pixels.
Units == 4

\* At most this many distinct raw pixel values in one image.
MaxDistinct == 3

\* The largest bucket width tried on quantize.
MaxStep == 255

NPixels == Side * Side

None == << >>

(* ------------------------- colour-math helpers ------------------------- *)

\* linearize(c) * 10^8 for c = 0..255 (entry c + 1).
LinTable == <<
    0, 30353, 60705, 91058, 121411, 151763, 182116, 212469,
    242822, 273174, 303527, 334654, 367651, 402472, 439144, 477695,
    518152, 560539, 604883, 651209, 699541, 749903, 802319, 856813,
    913406, 972122, 1032982, 1096009, 1161225, 1228649, 1298303, 1370208,
    1444384, 1520851, 1599629, 1680738, 1764195, 1850022, 1938236, 2028856,
    2121901, 2217388, 2315337, 2415763, 2518686, 2624122, 2732089, 2842604,
    2955683, 3071344, 3189603, 3310477, 3433981, 3560131, 3688945, 3820437,
    3954624, 4091520, 4231141, 4373503, 4518620, 4666509, 4817182, 4970657,
    5126946, 5286065, 5448028, 5612849, 5780543, 5951124, 6124605, 6301002,
    6480327, 6662594, 6847817, 7036010, 7227185, 7421357, 7618538, 7818742,
    8021982, 8228271, 8437621, 8650046, 8865559, 9084171, 9305896, 9530747,
    9758735, 9989873, 10224173, 10461648, 10702310, 10946171, 11193243, 11443537,
    11697067, 11953843, 12213877, 12477182, 12743768, 13013648, 13286832, 13563333,
    13843162, 14126329, 14412847, 14702727, 14995979, 15292615, 15592646, 15896084,
    16202938, 16513219, 16826940, 17144110, 17464740, 17788842, 18116424, 18447499,
    18782077, 19120168, 19461783, 19806932, 20155625, 20507874, 20863687, 21223076,
    21586050, 21952620, 22322796, 22696587, 23074005, 23455058, 23839757, 24228112,
    24620133, 25015828, 25415209, 25818285, 26225066, 26635560, 27049779, 27467731,
    27889426, 28314874, 28744084, 29177065, 29613827, 30054379, 30498731, 30946892,
    31398871, 31854678, 32314321, 32777810, 33245154, 33716362, 34191442, 34670406,
    35153260, 35640014, 36130678, 36625260, 37123768, 37626212, 38132601, 38642943,
    39157248, 39675523, 40197778, 40724021, 41254261, 41788507, 42326767, 42869050,
    43415364, 43965717, 44520119, 45078578, 45641102, 46207700, 46778380, 47353150,
    47932018, 48514994, 49102085, 49693300, 50288646, 50888132, 51491767, 52099557,
    52711513, 53327640, 53947949, 54572446, 55201140, 55834039, 56471151, 57112483,
    57758044, 58407842, 59061884, 59720179, 60382734, 61049557, 61720656, 62396039,
    63075714, 63759687, 64447968, 65140564, 65837482, 66538730, 67244316, 67954247,
    68668531, 69387176, 70110189, 70837578, 71569350, 72305513, 73046074, 73791041,
    74540421, 75294222, 76052450, 76815115, 77582222, 78353779, 79129794, 79910274,
    80695226, 81484657, 82278575, 83076988, 83879901, 84687323, 85499261, 86315721,
    87136712, 87962240, 88792312, 89626935, 90466117, 91309865, 92158186, 93011086,
    93868573, 94730654, 95597335, 96468625, 97344529, 98225055, 99110210, 100000000
    >>

Linearize(c) == LinTable[c + 1]

\* w/10000 * x, for a weight w given in ten-thousandths.
Weighted(w, x) == w * (x \div 10000) + (w * (x % 10000)) \div 10000

\* relative_luminance(r, g, b) * 10^8.
relative_luminance(r, g, b) ==
    Weighted(2126, Linearize(r)) + Weighted(7152, Linearize(g))
        + Weighted(722, Linearize(b))

Max2(a, b) == IF a >= b THEN a ELSE b

Min2(a, b) == IF a <= b THEN a ELSE b

\* contrast_ratio(c1, c2) >= ratio, for an integer ratio:
\* (lighter + 0.05) / (darker + 0.05) >= ratio, cross-multiplied.
contrast_at_least(c1, c2, ratio) ==
    LET l1 == relative_luminance(c1[1], c1[2], c1[3])
        l2 == relative_luminance(c2[1], c2[2], c2[3])
        lighter == Max2(l1, l2)
        darker == Min2(l1, l2)
    IN  lighter + 5000000 >= ratio * (darker + 5000000)

\* color_distance(c1, c2) ^ 2 * 512.
color_distance_sq512(c1, c2) ==
    LET rsum == c1[1] + c2[1]
        dr == c1[1] - c2[1]
        dg == c1[2] - c2[2]
        db == c1[3] - c2[3]
    IN  (1024 + rsum) * dr * dr + 2048 * dg * dg + (1024 + 510 - rsum) * db * db

\* color_distance(c1, c2) >= num / den.
distance_at_least(c1, c2, num, den) ==
    den * den * color_distance_sq512(c1, c2) >= 512 * num * num

\* brightness(r, g, b) * 1000.
brightness(r, g, b) == 299 * r + 587 * g + 114 * b

(* ------------------------------ quantize ------------------------------- *)

\* A quantize that returns the upper edge of the bucket, not its centre.
quantize_channel_edge(c, step) ==
    IF (c \div step) * step + step <= 255 THEN (c \div step) * step + step ELSE 255

\* min(255, (c // step) * step + step // 2) for one channel.
quantize_channel(c, step) ==
    Min2(MaxChannel, (c \div step) * step + step \div 2)

\* quantize(rgb, step): every channel to the centre of its bucket.
quantize(rgb, step) ==
    << quantize_channel(rgb[1], step),
       quantize_channel(rgb[2], step),
       quantize_channel(rgb[3], step) >>

(* ------------------------------- inputs -------------------------------- *)

\* Raw pixel values an image is painted with.  <<0,0,0>> and <<5,5,5>>
\* share a bucket; the others fall in distinct buckets.
Palette ==
    { <<0, 0, 0>>, <<5, 5, 5>>, <<255, 255, 255>>, <<0, 230, 0>>,
      <<160, 130, 140>>, <<128, 128, 128>>, <<70, 70, 70>>,
      <<255, 0, 0>>, <<200, 200, 210>> }

RECURSIVE SumTo(_, _)
SumTo(f, n) == IF n = 0 THEN 0 ELSE f[n] + SumTo(f, n - 1)

\* The pixels of one share; the first run also takes what is left when
\* Units does not divide the pixel count.
Grain == NPixels \div Units

RunCount(w, i) == w * Grain + (IF i = 1 THEN NPixels - Units * Grain ELSE 0)

\* Images of n runs: n distinct raw pixel values in order of first
\* occurrence, each with a positive number of shares.
ImagesOfLen(n) ==
    LET colours == { c \in [1..n -> Palette] :
                       \A i, j \in 1..n : i # j => c[i] # c[j] }
        shares == { w \in [1..n -> 1..Units] : SumTo(w, n) = Units }
    IN  { [i \in 1..n |-> << cw[1][i], RunCount(cw[2][i], i) >>] :
            cw \in colours \X shares }

Images == UNION { ImagesOfLen(n) : n \in 1..MaxDistinct }

\* The file named on the command line: readable as an image or not.
Files ==
    { [ok |-> FALSE, pixels |-> << >>] } \cup
    { [ok |-> TRUE, pixels |-> im] : im \in Images }

(* ------------------------- histogram and ranking ----------------------- *)

RECURSIVE TotalCount(_)
TotalCount(runs) ==
    IF runs = << >> THEN 0 ELSE Head(runs)[2] + TotalCount(Tail(runs))

\* [quantize(p) for p in img.getdata()], run by run.
QuantizeAll(img) ==
    [i \in DOMAIN img |-> << quantize(img[i][1], Step), img[i][2] >>]

\* Counter: one more occurrence of key, n times.  A new key is appended,
\* so the entries stay in order of first occurrence.
CounterAdd(acc, key, n) ==
    IF \E i \in DOMAIN acc : acc[i][1] = key
    THEN [i \in DOMAIN acc |->
            IF acc[i][1] = key THEN << key, acc[i][2] + n >> ELSE acc[i]]
    ELSE Append(acc, << key, n >>)

RECURSIVE CounterOf(_, _)
CounterOf(items, acc) ==
    IF items = << >> THEN acc
    ELSE CounterOf(Tail(items), CounterAdd(acc, Head(items)[1], Head(items)[2]))

\* Insert e into a sequence sorted by count descending, after every entry
\* of the same count (a stable sort).
RECURSIVE InsertRanked(_, _)
InsertRanked(sorted, e) ==
    IF sorted = << >> THEN << e >>
    ELSE IF Head(sorted)[2] >= e[2]
         THEN << Head(sorted) >> \o InsertRanked(Tail(sorted), e)
         ELSE << e >> \o sorted

RECURSIVE SortRanked(_, _)
SortRanked(items, acc) ==
    IF items = << >> THEN acc
    ELSE SortRanked(Tail(items), InsertRanked(acc, Head(items)))

\* A ranking that leaves the entries in order of first occurrence.
most_common_unsorted(counter) == counter

\* Counter.most_common(): by count descending, equal counts in order of
\* first occurrence.
most_common(counter) == SortRanked(counter, << >>)

(* --------------------------- pair selection ---------------------------- *)

\* A scan without the break: the last passing candidate wins.
RECURSIVE last_accepted(_, _, _, _, _)
last_accepted(prim, candidates, ratio, num, den) ==
    IF candidates = << >> THEN << >>
    ELSE LET later == last_accepted(prim, Tail(candidates), ratio, num, den)
         IN  IF later # << >> THEN later
             ELSE IF /\ contrast_at_least(prim, Head(candidates)[1], ratio)
                     /\ distance_at_least(prim, Head(candidates)[1], num, den)
                  THEN Head(candidates)[1]
                  ELSE << >>

\* for color, _ in candidates: accept the first one that passes both
\* thresholds; None when the loop ends without a break.
RECURSIVE first_accepted(_, _, _, _, _)
first_accepted(prim, candidates, ratio, num, den) ==
    IF candidates = << >> THEN None
    ELSE IF /\ contrast_at_least(prim, Head(candidates)[1], ratio)
            /\ distance_at_least(prim, Head(candidates)[1], num, den)
         THEN Head(candidates)[1]
         ELSE first_accepted(prim, Tail(candidates), ratio, num, den)

\* The strict pass over ranked[1:].
strict_pass(prim, rk) ==
    first_accepted(prim, Tail(rk), MinContrast, MinDistance, 1)

\* The relaxed pass over ranked[1:]: 2.0 and min_distance * 0.5.
relaxed_pass(prim, rk) ==
    first_accepted(prim, Tail(rk), RelaxedContrast, MinDistance, 2)

\* A companion chosen the wrong way round: dark for a dark primary.
synthesize_swapped(prim) ==
    IF brightness(prim[1], prim[2], prim[3]) > 127000
    THEN << 230, 230, 230 >>
    ELSE << 30, 30, 30 >>

\* The last resort: a synthetic companion.
synthesize(prim) ==
    IF brightness(prim[1], prim[2], prim[3]) > BrightnessSplit * 1000
    THEN << 30, 30, 30 >>
    ELSE << 230, 230, 230 >>

\* Roles assigned with the comparison reversed.
assign_roles_reversed(prim, sec) ==
    IF brightness(prim[1], prim[2], prim[3]) <= brightness(sec[1], sec[2], sec[3])
    THEN << prim, sec >>
    ELSE << sec, prim >>

\* Lighter -> foreground, darker -> background: << foreground, background >>.
assign_roles(prim, sec) ==
    IF brightness(prim[1], prim[2], prim[3]) >= brightness(sec[1], sec[2], sec[3])
    THEN << prim, sec >>
    ELSE << sec, prim >>

\* A darkening that rounds to nearest instead of truncating.
darken_channel_rounded(c) == IF c >= 0 THEN (3 * c + 2) \div 4 ELSE 0

\* max(0, int(c * 0.75)): c * 0.75 is exact in a double, int() truncates
\* toward zero.
darken_channel(c) ==
    LET t == IF c >= 0 THEN (3 * c) \div 4 ELSE -((3 * (-c)) \div 4)
    IN  Max2(0, t)

darken(c) == << darken_channel(c[1]), darken_channel(c[2]), darken_channel(c[3]) >>

(* ------------------------------ formatting ----------------------------- *)

HexDigits ==
    << "0", "1", "2", "3", "4", "5", "6", "7",
       "8", "9", "a", "b", "c", "d", "e", "f" >>

\* The digits of n >= 0 in base 16, lowercase, no padding.
RECURSIVE hex(_)
hex(n) ==
    IF n < 16 THEN << HexDigits[n + 1] >>
    ELSE hex(n \div 16) \o << HexDigits[(n % 16) + 1] >>

\* f"{n:x}": the zero padding forgotten.
hex_unpadded(n) == IF n < 0 THEN << "-" >> \o hex(-n) ELSE hex(n)

\* f"{n:02x}": zero-padded to a width of at least two, the sign included.
hex02(n) ==
    LET body == IF n < 0 THEN << "-" >> \o hex(-n) ELSE hex(n)
    IN  IF Len(body) >= 2 THEN body ELSE << "0" >> \o body

\* f"0xff{c[0]:02x}{c[1]:02x}{c[2]:02x}"
format_color(c) ==
    << "0", "x", "f", "f" >> \o hex02(c[1]) \o hex02(c[2]) \o hex02(c[3])

\* The background string built from the foreground's channels.
format_pair_copied(fgc, bgc) == << format_color(fgc), format_color(fgc) >>

\* The pair of strings extract_colors returns.
format_pair(fgc, bgc) == << format_color(fgc), format_color(bgc) >>

\* "0xff888888", "0xff222222"
FallbackPair ==
    << << "0", "x", "f", "f", "8", "8", "8", "8", "8", "8" >>,
       << "0", "x", "f", "f", "2", "2", "2", "2", "2", "2" >> >>

(* -------------------------------- state -------------------------------- *)

VARIABLES
    pc,          \* the statement the run is at
    argc,        \* len(sys.argv)
    file,        \* the file sys.argv[1] names
    img,         \* the resized RGB image, run-length encoded
    quantized,   \* the list of quantized pixels, run-length encoded
    counts,      \* the Counter, entries in order of first occurrence
    ranked,      \* counts.most_common()
    primary,
    secondary,
    foreground,
    background,
    assigned,    \* << foreground, background >> as lines 121-124 set them
    result,      \* the pair of strings extract_colors returned
    exc,         \* the exception in flight
    stdout,      \* lines printed, each << literal, value >>
    stderr,
    exitCode,
    qrgb,        \* quantize on its own: the pixel,
    qstep,       \* the step,
    qonce,       \* quantize(qrgb, qstep),
    qtwice       \* quantize(qonce, qstep)

vars ==
    << pc, argc, file, img, quantized, counts, ranked, primary, secondary,
       foreground, background, assigned, result, exc, stdout, stderr,
       exitCode, qrgb, qstep, qonce, qtwice >>

extractVars ==
    << img, quantized, counts, ranked, primary, secondary, foreground,
       background, assigned, result >>

ioVars == << exc, stdout, stderr, exitCode >>

qVars == << qrgb, qstep, qonce, qtwice >>

Blank ==
    /\ img = None /\ quantized = None /\ counts = None /\ ranked = None
    /\ primary = None /\ secondary = None
    /\ foreground = None /\ background = None /\ assigned = None
    /\ result = None /\ exc = None
    /\ stdout = << >> /\ stderr = << >> /\ exitCode = -1

\* The process starts: sys.argv holds the script name alone, or the script
\* name and a path.
Init ==
    /\ pc = "start"
    /\ \/ argc = 1 /\ file = [ok |-> FALSE, pixels |-> << >>]
       \/ argc = 2 /\ file \in Files
    /\ Blank
    /\ qrgb = None /\ qstep = 0 /\ qonce = None /\ qtwice = None

(* ------------------------------ the entry ------------------------------ *)

\* if len(sys.argv) < 2: print the usage on stderr, sys.exit(1).
Usage ==
    /\ pc = "start"
    /\ argc < 2
    /\ stderr' = Append(stderr, << "Usage: python3 color_extractor.py <image_path>" >>)
    /\ exitCode' = 1
    /\ pc' = "exit"
    /\ UNCHANGED << argc, file, extractVars, exc, stdout, qVars >>

\* Image.open(image_path).convert("RGB"), img.resize((80, 80)).
OpenImage ==
    /\ pc = "start"
    /\ argc >= 2
    /\ file.ok
    /\ img' = file.pixels
    /\ pc' = "loaded"
    /\ UNCHANGED << argc, file, quantized, counts, ranked, primary, secondary,
                    foreground, background, assigned, result, ioVars, qVars >>

\* A load failure swallowed inside extract_colors: the hardcoded pair is
\* returned instead of the exception reaching the caller.
OpenFailsQuietly ==
    /\ pc = "start"
    /\ argc >= 2
    /\ ~file.ok
    /\ result' = << << "0", "x", "f", "f", "8", "8", "8", "8", "8", "8" >>,
                    << "0", "x", "f", "f", "2", "2", "2", "2", "2", "2" >> >>
    /\ pc' = "returned"
    /\ UNCHANGED << argc, file, img, quantized, counts, ranked, primary,
                    secondary, foreground, background, assigned, ioVars, qVars >>

\* Image.open raises: the file is missing or is no image.
OpenFails ==
    /\ pc = "start"
    /\ argc >= 2
    /\ ~file.ok
    /\ exc' = "cannot open image"
    /\ pc' = "raised"
    /\ UNCHANGED << argc, file, extractVars, stdout, stderr, exitCode, qVars >>

\* except Exception as e: print(f"Error: {e}", file=sys.stderr); sys.exit(1)
HandleException ==
    /\ pc = "raised"
    /\ stderr' = Append(stderr, << "Error: ", exc >>)
    /\ exitCode' = 1
    /\ pc' = "exit"
    /\ UNCHANGED << argc, file, extractVars, exc, stdout, qVars >>

(* --------------------------- extract_colors ---------------------------- *)

\* quantized = [quantize(p) for p in img.getdata()]
QuantizePixels ==
    /\ pc = "loaded"
    /\ quantized' = QuantizeAll(img)
    /\ pc' = "quantized"
    /\ UNCHANGED << argc, file, img, counts, ranked, primary, secondary,
                    foreground, background, assigned, result, ioVars, qVars >>

\* counts = Counter(quantized); ranked = counts.most_common()
CountAndRank ==
    /\ pc = "quantized"
    /\ counts' = CounterOf(quantized, << >>)
    /\ ranked' = most_common(counts')
    /\ pc' = "ranked"
    /\ UNCHANGED << argc, file, img, quantized, primary, secondary,
                    foreground, background, assigned, result, ioVars, qVars >>

\* if not ranked: return the hardcoded pair; primary = ranked[0][0]
PickPrimary ==
    /\ pc = "ranked"
    /\ IF ranked = << >>
       THEN /\ result' = FallbackPair
            /\ pc' = "returned"
            /\ UNCHANGED primary
       ELSE /\ primary' = ranked[1][1]
            /\ pc' = "strict"
            /\ UNCHANGED result
    /\ UNCHANGED << argc, file, img, quantized, counts, ranked, secondary,
                    foreground, background, assigned, ioVars, qVars >>

\* secondary = None; the strict pass.
StrictPass ==
    /\ pc = "strict"
    /\ secondary' = strict_pass(primary, ranked)
    /\ pc' = "relaxed"
    /\ UNCHANGED << argc, file, img, quantized, counts, ranked, primary,
                    foreground, background, assigned, result, ioVars, qVars >>

\* if secondary is None: the relaxed pass.
RelaxedPass ==
    /\ pc = "relaxed"
    /\ secondary' = IF secondary = None THEN relaxed_pass(primary, ranked)
                    ELSE secondary
    /\ pc' = "synth"
    /\ UNCHANGED << argc, file, img, quantized, counts, ranked, primary,
                    foreground, background, assigned, result, ioVars, qVars >>

\* if secondary is None: synthesize.
Synthesize ==
    /\ pc = "synth"
    /\ secondary' = IF secondary = None THEN synthesize(primary) ELSE secondary
    /\ pc' = "roles"
    /\ UNCHANGED << argc, file, img, quantized, counts, ranked, primary,
                    foreground, background, assigned, result, ioVars, qVars >>

\* foreground, background = primary, secondary  or the other way round.
AssignRoles ==
    /\ pc = "roles"
    /\ assigned' = assign_roles(primary, secondary)
    /\ foreground' = assigned'[1]
    /\ background' = assigned'[2]
    /\ pc' = "darken"
    /\ UNCHANGED << argc, file, img, quantized, counts, ranked, primary,
                    secondary, result, ioVars, qVars >>

\* background = tuple(max(0, int(c * 0.75)) for c in background)
Darken ==
    /\ pc = "darken"
    /\ background' = darken(background)
    /\ pc' = "format"
    /\ UNCHANGED << argc, file, img, quantized, counts, ranked, primary,
                    secondary, foreground, assigned, result, ioVars, qVars >>

\* fg = f"0xff..."; bg = f"0xff..."; return fg, bg
Format ==
    /\ pc = "format"
    /\ result' = format_pair(foreground, background)
    /\ pc' = "returned"
    /\ UNCHANGED << argc, file, img, quantized, counts, ranked, primary,
                    secondary, foreground, background, assigned, ioVars, qVars >>

\* print(f"DOMINANT={fg}"); print(f"BACKGROUND={bg}"); the run ends.
PrintResult ==
    /\ pc = "returned"
    /\ stdout' = stdout \o << << "DOMINANT=", result[1] >>,
                              << "BACKGROUND=", result[2] >> >>
    /\ exitCode' = 0
    /\ pc' = "exit"
    /\ UNCHANGED << argc, file, extractVars, exc, stderr, qVars >>

Next ==
    \/ Usage
    \/ OpenImage
    \/ OpenFails
    \/ HandleException
    \/ QuantizePixels
    \/ CountAndRank
    \/ PickPrimary
    \/ StrictPass
    \/ RelaxedPass
    \/ Synthesize
    \/ AssignRoles
    \/ Darken
    \/ Format
    \/ PrintResult

Spec == Init /\ [][Next]_vars

(* -------------------------- quantize on its own ------------------------ *)

\* Pixels that put every channel value 0..255 through quantize.
QPixels == { << c, MaxChannel - c, MaxChannel >> : c \in 0..MaxChannel }

QInit ==
    /\ pc = "q-start"
    /\ argc = 0 /\ file = [ok |-> FALSE, pixels |-> << >>]
    /\ Blank
    /\ qrgb \in QPixels
    /\ qstep \in 1..MaxStep
    /\ qonce = None /\ qtwice = None

QuantizeOnce ==
    /\ pc = "q-start"
    /\ qonce' = quantize(qrgb, qstep)
    /\ pc' = "q-once"
    /\ UNCHANGED << argc, file, extractVars, ioVars, qrgb, qstep, qtwice >>

QuantizeTwice ==
    /\ pc = "q-once"
    /\ qtwice' = quantize(qonce, qstep)
    /\ pc' = "q-twice"
    /\ UNCHANGED << argc, file, extractVars, ioVars, qrgb, qstep, qonce >>

QNext ==
    \/ QuantizeOnce
    \/ QuantizeTwice

QSpec == QInit /\ [][QNext]_vars

(* ------------------------------ properties ----------------------------- *)

\* Where the run is once the secondary is final.
Selected == pc \in { "roles", "darken", "format" } \/ (pc \in { "returned", "exit" } /\ primary # None)

\* Where the run is once the roles are assigned.
Assigned == assigned # None

\* extract_colors has returned a pair of strings.
Returned == pc \in { "returned", "exit" } /\ result # None

PassesStrict(i) ==
    /\ contrast_at_least(primary, ranked[i][1], 3)
    /\ distance_at_least(primary, ranked[i][1], 80, 1)

PassesRelaxed(i) ==
    /\ contrast_at_least(primary, ranked[i][1], 2)
    /\ distance_at_least(primary, ranked[i][1], 40, 1)

StrictSet == { i \in 2..Len(ranked) : PassesStrict(i) }

RelaxedSet == { i \in 2..Len(ranked) : PassesRelaxed(i) }

IsFirstOf(c, S) == \E i \in S : c = ranked[i][1] /\ \A j \in S : i <= j

Dark == << 30, 30, 30 >>

Light == << 230, 230, 230 >>

\* C1: the secondary comes from a strict three-tier chain.  After the strict
\* pass the secondary is the first bucket after the primary, in ranked order,
\* with contrast >= 3.0 and distance >= 80, or None when there is none; the
\* relaxed pass changes it only when it is None, to the first bucket with
\* contrast >= 2.0 and distance >= 40; the synthetic colour is used only
\* when no bucket passes the relaxed tier.  A lower-ranked bucket is never
\* chosen over a higher-ranked one that passes the tier in force.
C1_ThreeTierChain ==
    /\ pc = "relaxed" =>
         IF StrictSet # {} THEN IsFirstOf(secondary, StrictSet)
         ELSE secondary = None
    /\ pc = "synth" =>
         IF StrictSet # {} THEN IsFirstOf(secondary, StrictSet)
         ELSE IF RelaxedSet # {} THEN IsFirstOf(secondary, RelaxedSet)
         ELSE secondary = None
    /\ Selected =>
         IF StrictSet # {} THEN IsFirstOf(secondary, StrictSet)
         ELSE IF RelaxedSet # {} THEN IsFirstOf(secondary, RelaxedSet)
         ELSE secondary \in { Dark, Light }

\* C1 witness: the second-ranked bucket passes only the relaxed tier, the
\* third-ranked passes the strict tier and has been chosen.
C1_Witness ==
    /\ pc = "roles"
    /\ Len(ranked) >= 3
    /\ PassesRelaxed(2) /\ ~PassesStrict(2)
    /\ PassesStrict(3)
    /\ secondary = ranked[3][1]

\* C2: the two strings extract_colors returns are distinct.
C2_OutputsDistinct == Returned => result[1] # result[2]

\* C2 witness: a pair has been returned and printed for an image whose
\* secondary is a bucket of the image, and the background was darkened.
C2_Witness ==
    /\ pc = "exit" /\ exitCode = 0
    /\ Len(ranked) >= 2
    /\ secondary = ranked[2][1]
    /\ background # assigned[2]

\* C3: the contrast ratio between the foreground and the darkened
\* background that are returned is at least 2.0.
C3_ReturnedContrast ==
    (pc \in { "format", "returned", "exit" } /\ Assigned) =>
        contrast_at_least(foreground, background, 2)

\* C4: the colour assigned the foreground role is at least as bright as the
\* colour assigned the background role before darkening; on equal
\* brightness the primary is the foreground.
C4_ForegroundBrighter ==
    Assigned =>
        LET f == assigned[1]
            b == assigned[2]
            bf == 299 * f[1] + 587 * f[2] + 114 * f[3]
            bb == 299 * b[1] + 587 * b[2] + 114 * b[3]
        IN  /\ { f, b } = { primary, secondary }
            /\ f # b
            /\ bf >= bb
            /\ bf = bb => f = primary
            /\ foreground = f

\* C4 witness: the secondary is brighter than the primary and took the
\* foreground role.
C4_Witness ==
    /\ pc = "darken"
    /\ Len(ranked) >= 2
    /\ assigned = << secondary, primary >>
    /\ secondary = ranked[2][1]

\* The value of one lowercase hexadecimal digit, -1 for any other character.
HexValue(ch) ==
    IF \E v \in 0..15 : HexDigits[v + 1] = ch
    THEN CHOOSE v \in 0..15 : HexDigits[v + 1] = ch
    ELSE -1

\* Channel k (1 = red, 2 = green, 3 = blue) read back from "0xffrrggbb".
ChannelOf(str, k) == 16 * HexValue(str[3 + 2 * k]) + HexValue(str[4 + 2 * k])

\* d = floor(0.75 * c), floored at 0.
IsDarkened(d, c) == d >= 0 /\ 4 * d <= 3 * c /\ 3 * c < 4 * (d + 1)

\* darken_channel is floor(0.75 * c) on every channel value.
DarkenIsFloor ==
    /\ \A c \in 0..255 : IsDarkened(darken_channel(c), c)
    /\ darken_channel(255) = 191
    /\ darken_channel(0) = 0

\* C5: in a non-fallback result every channel of the emitted background is
\* floor(0.75 * c) of the channel c of the colour assigned the background
\* role (255 -> 191, 0 -> 0), and the emitted foreground has exactly the
\* channels of the colour assigned the foreground role.
C5_DarkeningFrame ==
    /\ (Returned /\ Assigned) =>
         /\ Len(result[1]) = 10 /\ Len(result[2]) = 10
         /\ \A k \in 1..3 :
              /\ IsDarkened(ChannelOf(result[2], k), assigned[2][k])
              /\ ChannelOf(result[1], k) = assigned[1][k]
    /\ (pc = "format" /\ Assigned) =>
         /\ foreground = assigned[1]
         /\ \A k \in 1..3 : IsDarkened(background[k], assigned[2][k])
    /\ DarkenIsFloor

\* C5 witness: the synthetic (30,30,30) took the background role and was
\* emitted as (22,22,22): 0.75 * 30 = 22.5 was truncated.
C5_Witness ==
    /\ pc = "exit" /\ exitCode = 0
    /\ assigned[2] = Dark
    /\ result[2] = << "0", "x", "f", "f", "1", "6", "1", "6", "1", "6" >>
    /\ result[1] = format_color(primary)

LowerHex ==
    { "0", "1", "2", "3", "4", "5", "6", "7",
      "8", "9", "a", "b", "c", "d", "e", "f" }

\* A value of exactly 10 characters: 0xff and six lowercase hex digits.
WellFormed(str) ==
    /\ Len(str) = 10
    /\ str[1] = "0" /\ str[2] = "x" /\ str[3] = "f" /\ str[4] = "f"
    /\ \A i \in 5..10 : str[i] \in LowerHex

\* C6: for every image that loaded, the run prints exactly two lines,
\* DOMINANT= first and BACKGROUND= second, each value well formed; every
\* channel of the final foreground and background lies in 0..255.
C6_OutputFormat ==
    /\ (pc = "exit" /\ argc >= 2 /\ file.ok) =>
         /\ exitCode = 0
         /\ Len(stdout) = 2
         /\ stdout[1][1] = "DOMINANT=" /\ WellFormed(stdout[1][2])
         /\ stdout[2][1] = "BACKGROUND=" /\ WellFormed(stdout[2][2])
         /\ stderr = << >>
    /\ (pc \in { "format", "returned", "exit" } /\ Assigned) =>
         \A k \in 1..3 : foreground[k] \in 0..255 /\ background[k] \in 0..255
    /\ pc # "exit" => stdout = << >>

\* C6 witness: both lines are printed and a channel below 16 was padded.
C6_Witness ==
    /\ pc = "exit"
    /\ Len(stdout) = 2
    /\ foreground = << 252, 252, 252 >>
    /\ background = << 9, 9, 9 >>
    /\ stdout[2][2] = << "0", "x", "f", "f", "0", "9", "0", "9", "0", "9" >>

\* C7: when all 6400 pixels quantize to one bucket, the strict and relaxed
\* passes accept nothing and the secondary is synthetic: (30,30,30) when
\* brightness(primary) > 127, otherwise (230,230,230).  All black gives
\* (230,230,230); all white gives (30,30,30).
C7_SingleBucket ==
    (Len(ranked) = 1 /\ primary # None) =>
        /\ ranked[1] = << primary, 6400 >>
        /\ pc \in { "relaxed", "synth" } => secondary = None
        /\ Selected =>
             /\ secondary =
                  IF 299 * primary[1] + 587 * primary[2] + 114 * primary[3] > 127000
                  THEN Dark ELSE Light
             /\ primary = << 12, 12, 12 >> => secondary = Light
             /\ primary = << 252, 252, 252 >> => secondary = Dark

\* C7 witness: an image painted in two raw blacks that share a bucket.
C7_Witness ==
    /\ pc = "roles"
    /\ Len(img) = 2
    /\ ranked = << << << 12, 12, 12 >>, 6400 >> >>
    /\ secondary = Light

\* C8: quantize is idempotent for every channel value 0..255 and every step.
C8_QuantizeIdempotent == pc = "q-twice" => qtwice = qonce

\* C8 witness: a channel whose bucket centre was clamped to 255.
C8_Witness ==
    /\ pc = "q-twice"
    /\ qstep = 200
    /\ qrgb[1] = 210
    /\ qonce[1] = 255

\* C9: when the image cannot be opened the run ends with exit code 1 and one
\* stderr message beginning "Error:", and nothing is ever printed on stdout;
\* without a path argument the usage message is printed and the run exits
\* with code 1 before any image processing starts.
C9_ErrorPaths ==
    /\ (argc >= 2 /\ ~file.ok) =>
         /\ stdout = << >>
         /\ result = None
         /\ pc = "exit" =>
              /\ exitCode = 1
              /\ Len(stderr) = 1
              /\ stderr[1][1] = "Error: "
    /\ argc = 1 =>
         /\ stdout = << >>
         /\ img = None /\ quantized = None /\ result = None /\ exc = None
         /\ pc = "exit" =>
              /\ exitCode = 1
              /\ stderr = << << "Usage: python3 color_extractor.py <image_path>" >> >>

\* C9 witness: the run for an unreadable file has ended.
C9_Witness ==
    /\ pc = "exit"
    /\ argc = 2
    /\ ~file.ok
    /\ exitCode = 1
    /\ stderr = << << "Error: ", "cannot open image" >> >>

\* C10: when the image loads, the histogram is built from exactly 6400
\* quantized pixels: the ranking is non-empty, its counts sum to 6400 and
\* the primary is a bucket of maximal count; the hardcoded pair
\* (0xff888888, 0xff222222) is never returned, and a load failure never
\* returns a pair at all.
C10_HistogramNonEmpty ==
    /\ quantized # None => TotalCount(quantized) = 6400
    /\ ranked # None =>
         /\ ranked # << >>
         /\ TotalCount(ranked) = 6400
         /\ \A i \in DOMAIN ranked : ranked[1][2] >= ranked[i][2]
         /\ \A i, j \in DOMAIN ranked : i # j => ranked[i][1] # ranked[j][1]
    /\ pc \notin { "start", "loaded", "quantized", "ranked", "raised" } /\ file.ok =>
         /\ primary # None
         /\ primary = ranked[1][1]
    /\ result # FallbackPair
    /\ ~file.ok => result = None

\* C10 witness: two raw pixel values were merged into the bucket that
\* became the primary, ahead of a bucket that occurred first.
C10_Witness ==
    /\ pc = "exit" /\ exitCode = 0
    /\ Len(counts) = 2 /\ Len(quantized) = 3
    /\ counts[1][2] < counts[2][2]
    /\ primary = counts[2][1]

====
